---- MODULE Spec2Model ----
(***************************************************************************)
(* Model of AWS/add-line-items.py: the Bedrock-agent action handler that   *)
(* validates one line item and inserts it into requisitions_lineitems.     *)
(*                                                                         *)
(* Python values are tagged records [t, s, n]; a string is the sequence of *)
(* its characters, so that int(), str() and the f-strings are computed the *)
(* way the interpreter computes them.  A text built by the handler is a    *)
(* sequence of pieces: literal pieces of the source and characters of      *)
(* formatted values.                                                       *)
(***************************************************************************)
EXTENDS Integers, Sequences, FiniteSets, TLC

\* ------------------------------------------------------------------ bounds
\* number of handler invocations that may run (concurrently) in SpecConc
NumInvocations == 2
\* longest "parameters" sequence of a request
MaxParams == 4

\* ------------------------------------------------------ Python values
PyStr(chars)     == [t |-> "str",   s |-> chars, n |-> 0]
PyInt(i)         == [t |-> "int",   s |-> <<>>,  n |-> i]
\* a float with integer part i (truncated toward zero) and fraction digits
PyFloat(i, frac) == [t |-> "float", s |-> frac,  n |-> i]
\* a non-empty JSON array used as a field value
PyList           == [t |-> "list",  s |-> <<>>,  n |-> 1]
None             == [t |-> "None",  s |-> <<>>,  n |-> 0]

Digits == <<"0", "1", "2", "3", "4", "5", "6", "7", "8", "9">>

DigitSet == {Digits[i] : i \in 1..10}

DigitVal(c) == (CHOOSE i \in 1..10 : Digits[i] = c) - 1

Whitespace == {" "}

\* mutant: the string "0" counts as falsy, as the number 0 does
TruthyZeroString(v) ==
    CASE v.t = "str"   -> v.s # <<>> /\ v.s # <<"0">>
      [] v.t = "int"   -> v.n # 0
      [] v.t = "float" -> v.n # 0 \/ \E i \in 1..Len(v.s) : v.s[i] # "0"
      [] v.t = "list"  -> v.n > 0
      [] OTHER         -> FALSE

\* bool(v): Python truthiness
Truthy(v) ==
    CASE v.t = "str"   -> v.s # <<>>
      [] v.t = "int"   -> v.n # 0
      [] v.t = "float" -> v.n # 0 \/ \E i \in 1..Len(v.s) : v.s[i] # "0"
      [] v.t = "list"  -> v.n > 0
      [] OTHER         -> FALSE

\* str.strip() as int() applies it to its argument
RECURSIVE LStrip(_)
LStrip(s) == IF s # <<>> /\ Head(s) \in Whitespace THEN LStrip(Tail(s)) ELSE s

RECURSIVE RStrip(_)
RStrip(s) ==
    IF s # <<>> /\ s[Len(s)] \in Whitespace THEN RStrip(SubSeq(s, 1, Len(s) - 1)) ELSE s

Strip(s) == RStrip(LStrip(s))

\* the digits-with-underscores part of an integer literal, read left to right;
\* prev is "start", "digit" or "us" (the kind of the character before)
RECURSIVE ParseDigits(_, _, _)
ParseDigits(s, acc, prev) ==
    IF s = <<>> THEN [ok |-> prev = "digit", n |-> acc]
    ELSE IF Head(s) \in DigitSet
         THEN ParseDigits(Tail(s), 10 * acc + DigitVal(Head(s)), "digit")
    ELSE IF Head(s) = "_" /\ prev = "digit"
         THEN ParseDigits(Tail(s), acc, "us")
    ELSE [ok |-> FALSE, n |-> 0]

\* int(<str>): [ok |-> FALSE] stands for ValueError
ParseStrBody(b) ==
    IF b # <<>> /\ Head(b) = "-"
    THEN LET r == ParseDigits(Tail(b), 0, "start") IN [ok |-> r.ok, n |-> 0 - r.n]
    ELSE IF b # <<>> /\ Head(b) = "+"
    THEN ParseDigits(Tail(b), 0, "start")
    ELSE ParseDigits(b, 0, "start")

ParseStr(chars) == ParseStrBody(Strip(chars))

\* int(v): exc is "" (a value), "ValueError" or "TypeError"
PyIntOf(v) ==
    CASE v.t = "str"   -> LET r == ParseStr(v.s)
                          IN  [exc |-> IF r.ok THEN "" ELSE "ValueError", n |-> r.n]
      [] v.t = "int"   -> [exc |-> "", n |-> v.n]
      [] v.t = "float" -> [exc |-> "", n |-> v.n]
      [] OTHER         -> [exc |-> "TypeError", n |-> 0]

\* str(<int>): the decimal digits, with "-" before a negative number
RECURSIVE NatStr(_)
NatStr(n) == IF n < 10 THEN <<Digits[n + 1]>> ELSE NatStr(n \div 10) \o <<Digits[(n % 10) + 1]>>

IntStr(n) == IF n < 0 THEN <<"-">> \o NatStr(0 - n) ELSE NatStr(n)

\* str(v) as an f-string field renders it
Format(v) ==
    CASE v.t = "str"   -> v.s
      [] v.t = "int"   -> IntStr(v.n)
      [] v.t = "float" -> IntStr(v.n) \o <<".">> \o v.s
      [] v.t = "list"  -> <<"[", "1", "]">>
      [] OTHER         -> <<"None">>

\* sep.join(names): the pieces of the joined text
RECURSIVE Join(_, _)
Join(names, sep) ==
    IF names = <<>> THEN <<>>
    ELSE IF Len(names) = 1 THEN <<names[1]>>
    ELSE <<names[1], sep>> \o Join(Tail(names), sep)

\* dict.get(key, default) on a mapping (a function whose domain is its keys)
Get(d, key, default) == IF key \in DOMAIN d THEN d[key] ELSE default

\* ------------------------------------------------- the request domain
\* marks a key that the request does not carry (never a value of the program)
Absent == [t |-> "absent", s |-> <<>>, n |-> 0]

RequiredFields == <<"requisition_id", "item_name", "quantity">>

RequisitionIds == {Absent, PyStr(<<>>), PyStr(<<"R", "E", "Q", "1">>), PyInt(0)}

ItemNames == {Absent, PyStr(<<>>), PyStr(<<"B", "o", "l", "t">>)}

MaterialCodes == {Absent, PyStr(<<>>), PyStr(<<"M", "C", "5">>)}

QuantityStrings ==
    { <<>>, <<"0">>, <<"5">>, <<"1", "0">>, <<"-", "3">>, <<"+", "7">>, <<" ", "7", " ">>,
      <<"1", "_", "0">>, <<"0", "0", "7">>, <<"a", "b", "c">>, <<"1", "2", ".", "5">>,
      <<"1", "_", "_", "0">>, <<"5", "_">>, <<"-">>, <<" ">>, <<"1", " ", "0">> }

Quantities ==
    {Absent, None, PyInt(0), PyInt(5), PyInt(-3), PyFloat(12, <<"5">>), PyFloat(0, <<"0">>), PyList}
        \cup {PyStr(q) : q \in QuantityStrings}

\* a "parameters" mapping: the keys whose choice is not Absent
MkDict(r, i, q, m) ==
    LET c == [requisition_id |-> r, item_name |-> i, quantity |-> q, material_code |-> m]
    IN  [k \in {x \in DOMAIN c : c[x] # Absent} |-> c[k]]

Mappings ==
    {MkDict(r, i, q, m) : r \in RequisitionIds, i \in ItemNames, q \in Quantities,
                          m \in MaterialCodes}

\* the shapes of the "parameters" field
ParamDict(d)     == [t |-> "dict", items |-> <<>>,  d |-> d]
ParamList(items) == [t |-> "list", items |-> items, d |-> <<>>]
ParamNone        == [t |-> "None", items |-> <<>>,  d |-> <<>>]
ParamScalar      == [t |-> "str",  items |-> <<>>,  d |-> <<>>]

\* elements of a "parameters" sequence: a {name, value} pair, a mapping that
\* lacks "value", and an element that is no mapping at all
Pair(name, value) == [kind |-> "pair", name |-> name, value |-> value]

Elements ==
    { Pair("requisition_id", PyStr(<<"R", "E", "Q", "1">>)),
      Pair("requisition_id", PyStr(<<>>)),
      Pair("item_name", PyStr(<<"B", "o", "l", "t">>)),
      Pair("quantity", PyStr(<<"1", "0">>)),
      Pair("quantity", PyStr(<<"a", "b", "c">>)),
      Pair("quantity", PyStr(<<"0">>)),
      Pair("material_code", PyStr(<<"M", "C", "5">>)),
      [kind |-> "noValue", name |-> "quantity", value |-> None],
      [kind |-> "scalar", name |-> "", value |-> None] }

ParamLists == UNION {[1..n -> Elements] : n \in 0..MaxParams}

ParameterShapes ==
    {ParamDict(d) : d \in Mappings} \cup {ParamList(l) : l \in ParamLists}
        \cup {ParamNone, ParamScalar}

ActionGroups == {PyStr(<<"L", "i", "n", "e", "I", "t", "e", "m", "s">>), PyStr(<<"P", "O">>)}

Functions == {PyStr(<<"a", "d", "d">>)}

\* a request: a mapping that may lack any of its three keys
Events ==
    {[actionGroup |-> a, function |-> f, parameters |-> ps] :
        a \in ActionGroups, f \in Functions, ps \in ParameterShapes}
    \cup {[actionGroup |-> a, function |-> f] : a \in ActionGroups, f \in Functions}
    \cup {[parameters |-> ParamDict(MkDict(PyStr(<<"R", "E", "Q", "1">>),
                                           PyStr(<<"B", "o", "l", "t">>),
                                           q, Absent))] :
             q \in {PyStr(<<"1", "0">>), PyStr(<<"a", "b", "c">>), Absent}}

\* the requests of the concurrent specification
ConcEvents ==
    {[actionGroup |-> a, function |-> f, parameters |-> ps] :
        a \in {PyStr(<<"P", "O">>)}, f \in Functions,
        ps \in { ParamDict(MkDict(PyStr(<<"R", "E", "Q", "1">>), PyStr(<<"B", "o", "l", "t">>),
                                  PyStr(<<"1", "0">>), PyStr(<<"M", "C", "5">>))),
                 ParamDict(MkDict(PyStr(<<"R", "E", "Q", "1">>), PyStr(<<"B", "o", "l", "t">>),
                                  PyStr(<<"a", "b", "c">>), Absent)),
                 ParamDict(MkDict(PyStr(<<"R", "E", "Q", "1">>), Absent,
                                  PyStr(<<"0">>), Absent)),
                 ParamList(<<Pair("requisition_id", PyStr(<<"R", "E", "Q", "1">>)),
                             Pair("item_name", PyStr(<<"B", "o", "l", "t">>)),
                             Pair("quantity", PyStr(<<"0">>))>>),
                 ParamNone }}

\* ------------------------------------------------------------ the state
Procs == 1..NumInvocations

VARIABLES
    pc,              \* position of each invocation in lambda_handler
    event,           \* its request
    parameters,      \* the normalised parameters
    requisition_id, item_name, quantity, material_code,
    quantity_int,
    conn, cur,       \* "None", "open" or "closed"
    response,        \* the returned envelope
    exc,             \* the exception that left lambda_handler, "" if none
    calls,           \* the database API calls the invocation has made, in order
    pending,         \* rows written in the invocation's open transaction
    table,           \* the committed rows of requisitions_lineitems
    now,             \* the clock datetime.utcnow() reads
    err              \* the exception bound by "except Exception as err"

locals == <<parameters, requisition_id, item_name, quantity, material_code, quantity_int>>

dbvars == <<conn, cur, calls, pending, table, now, err>>

vars == <<pc, event, locals, dbvars, response, exc>>

NoResponse == [messageVersion |-> "none"]

Init ==
    /\ pc = [p \in Procs |-> "idle"]
    /\ event = [p \in Procs |-> <<>>]
    /\ parameters = [p \in Procs |-> ParamNone]
    /\ requisition_id = [p \in Procs |-> None]
    /\ item_name = [p \in Procs |-> None]
    /\ quantity = [p \in Procs |-> None]
    /\ material_code = [p \in Procs |-> None]
    /\ quantity_int = [p \in Procs |-> 0]
    /\ conn = [p \in Procs |-> "None"]
    /\ cur = [p \in Procs |-> "None"]
    /\ response = [p \in Procs |-> NoResponse]
    /\ exc = [p \in Procs |-> ""]
    /\ calls = [p \in Procs |-> <<>>]
    /\ pending = [p \in Procs |-> <<>>]
    /\ table = <<>>
    /\ now = 0
    /\ err = [p \in Procs |-> <<>>]

\* ------------------------------------------------------- the envelopes
\* _agent_error(event, message, status_code)
AgentError(ev, message, status_code) ==
    [ messageVersion |-> "1.0",
      response |->
        [ actionGroup |-> Get(ev, "actionGroup", None),
          function |-> Get(ev, "function", None),
          functionResponse |-> [responseBody |-> [TEXT |-> [body |-> message]]] ],
      statusCode |-> status_code ]

\* the character U+2713 (check mark) that opens the success message
CheckMark == "U+2713"

\* the f-string of the success message
BodyText(item, qty, rid) ==
    <<CheckMark, " Added '">> \o Format(item) \o <<"' (Qty ">> \o IntStr(qty)
        \o <<") to requisition ">> \o Format(rid) \o <<".">>

\* the envelope lambda_handler returns after the insert
SuccessEnvelope(ev, rid, item, mc, qty) ==
    [ messageVersion |-> "1.0",
      response |->
        [ actionGroup |-> Get(ev, "actionGroup", None),
          function |-> Get(ev, "function", None),
          functionResponse |->
            [ responseBody |->
                [ TEXT |-> [body |-> BodyText(item, qty, rid)],
                  requisition_id |-> rid,
                  item_name |-> item,
                  quantity |-> PyStr(IntStr(qty)),
                  material_code |-> mc ] ] ] ]

\* ------------------------------------------------------ normalisation
\* mutant: the first occurrence of a name wins
PutIfAbsent(d, key, value) ==
    [k \in DOMAIN d \cup {key} |-> IF k \in DOMAIN d THEN d[k] ELSE value]

\* d[key] = value
Put(d, key, value) == [k \in DOMAIN d \cup {key} |-> IF k = key THEN value ELSE d[k]]

\* {param['name']: param['value'] for param in items}: exc is "" or the
\* exception the comprehension raises at the first malformed element
RECURSIVE DictComp(_, _)
DictComp(items, acc) ==
    IF items = <<>> THEN [exc |-> "", d |-> acc]
    ELSE LET param == Head(items)
         IN  CASE param.kind = "scalar"  -> [exc |-> "TypeError", d |-> acc]
               [] param.kind = "noValue" -> [exc |-> "KeyError", d |-> acc]
               [] OTHER -> DictComp(Tail(items), Put(acc, param.name, param.value))

\* the list of required fields whose value is absent or falsy
RECURSIVE MissingFrom(_, _)
MissingFrom(fields, d) ==
    IF fields = <<>> THEN <<>>
    ELSE (IF Truthy(Get(d, Head(fields), None)) THEN <<>> ELSE <<Head(fields)>>)
             \o MissingFrom(Tail(fields), d)

\* mutant: a field is missing only when its key is absent
MissingAbsentOnly(d) ==
    SelectSeq(RequiredFields, LAMBDA k : k \notin DOMAIN d)

\* mutant: quantity is left to the integer check
MissingIdsOnly(d) == MissingFrom(<<"requisition_id", "item_name">>, d)

\* missing = [k for k in [...] if not parameters.get(k)]
Missing(d) == MissingFrom(RequiredFields, d)

\* ------------------------------------------------------------ actions
\* the hosting environment calls lambda_handler(event, context)
Invoke(p, requests) ==
    /\ pc[p] = "idle"
    /\ \E e \in requests : event' = [event EXCEPT ![p] = e]
    /\ pc' = [pc EXCEPT ![p] = "normalise"]
    /\ UNCHANGED <<locals, dbvars, response, exc>>

\* 1) normalise the parameters
Normalise(p) ==
    /\ pc[p] = "normalise"
    /\ LET ps == Get(event[p], "parameters", ParamDict(<<>>))
       IN  IF ps.t = "list"
           THEN LET r == DictComp(ps.items, <<>>)
                IN  IF r.exc = ""
                    THEN /\ parameters' = [parameters EXCEPT ![p] = ParamDict(r.d)]
                         /\ pc' = [pc EXCEPT ![p] = "extract"]
                         /\ exc' = exc
                    ELSE /\ exc' = [exc EXCEPT ![p] = r.exc]
                         /\ pc' = [pc EXCEPT ![p] = "raised"]
                         /\ parameters' = parameters
           ELSE /\ parameters' = [parameters EXCEPT ![p] = ps]
                /\ pc' = [pc EXCEPT ![p] = "extract"]
                /\ exc' = exc
    /\ UNCHANGED <<event, requisition_id, item_name, quantity, material_code, quantity_int,
                   dbvars, response>>

\* 2) extract the parameters of a line item
Extract(p) ==
    /\ pc[p] = "extract"
    /\ IF parameters[p].t = "dict"
       THEN /\ requisition_id' =
                  [requisition_id EXCEPT ![p] = Get(parameters[p].d, "requisition_id", PyStr(<<>>))]
            /\ item_name' = [item_name EXCEPT ![p] = Get(parameters[p].d, "item_name", PyStr(<<>>))]
            /\ quantity' = [quantity EXCEPT ![p] = Get(parameters[p].d, "quantity", PyStr(<<>>))]
            /\ material_code' =
                  [material_code EXCEPT ![p] = Get(parameters[p].d, "material_code", PyStr(<<>>))]
            /\ pc' = [pc EXCEPT ![p] = "validate"]
            /\ exc' = exc
       ELSE /\ exc' = [exc EXCEPT ![p] = "AttributeError"]
            /\ pc' = [pc EXCEPT ![p] = "raised"]
            /\ UNCHANGED <<requisition_id, item_name, quantity, material_code>>
    /\ UNCHANGED <<event, parameters, quantity_int, dbvars, response>>

\* 3) basic validation: the required fields
Validate(p) ==
    /\ pc[p] = "validate"
    /\ LET missing == Missing(parameters[p].d)
       IN  IF missing # <<>>
           THEN /\ response' =
                      [response EXCEPT ![p] =
                          AgentError(event[p],
                                     <<"Missing required field(s): ">> \o Join(missing, ", "),
                                     400)]
                /\ pc' = [pc EXCEPT ![p] = "done"]
           ELSE /\ pc' = [pc EXCEPT ![p] = "parse"]
                /\ response' = response
    /\ UNCHANGED <<event, locals, dbvars, exc>>

\* 3) basic validation: quantity_int = int(quantity)
ParseQuantity(p) ==
    /\ pc[p] = "parse"
    /\ LET r == PyIntOf(quantity[p])
       IN  CASE r.exc = "" ->
                  /\ quantity_int' = [quantity_int EXCEPT ![p] = r.n]
                  /\ pc' = [pc EXCEPT ![p] = "connect"]
                  /\ UNCHANGED <<response, exc>>
             [] r.exc = "ValueError" ->
                  /\ response' =
                        [response EXCEPT ![p] =
                            AgentError(event[p], <<"Quantity must be an integer">>, 400)]
                  /\ pc' = [pc EXCEPT ![p] = "done"]
                  /\ UNCHANGED <<quantity_int, exc>>
             [] OTHER ->
                  /\ exc' = [exc EXCEPT ![p] = r.exc]
                  /\ pc' = [pc EXCEPT ![p] = "raised"]
                  /\ UNCHANGED <<quantity_int, response>>
    /\ UNCHANGED <<event, parameters, requisition_id, item_name, quantity, material_code, dbvars>>

\* the text of the exception each database call can raise
DbErrorText ==
    [ connect_db |-> <<"could not connect to server">>,
      cursor     |-> <<"connection already closed">>,
      execute    |-> <<"violates foreign key constraint">>,
      commit     |-> <<"server closed the connection unexpectedly">> ]

\* one database API call, as the invocation's connection records it
Call(op, ok) == [op |-> op, ok |-> ok]

Log(p, op, ok) == calls' = [calls EXCEPT ![p] = Append(@, Call(op, ok))]

\* the call raised: control goes to the except clause with err bound
Raise(p, op) ==
    /\ Log(p, op, FALSE)
    /\ err' = [err EXCEPT ![p] = DbErrorText[op]]
    /\ pc' = [pc EXCEPT ![p] = "except"]

\* 4) conn = connect_db()
Connect(p) ==
    /\ pc[p] = "connect"
    /\ \/ /\ Log(p, "connect_db", TRUE)
          /\ conn' = [conn EXCEPT ![p] = "open"]
          /\ pc' = [pc EXCEPT ![p] = "cursor"]
          /\ err' = err
       \/ /\ Raise(p, "connect_db")
          /\ conn' = conn
    /\ UNCHANGED <<event, locals, cur, pending, table, now, response, exc>>

\* cur = conn.cursor()
Cursor(p) ==
    /\ pc[p] = "cursor"
    /\ \/ /\ Log(p, "cursor", TRUE)
          /\ cur' = [cur EXCEPT ![p] = "open"]
          /\ pc' = [pc EXCEPT ![p] = "execute"]
          /\ err' = err
       \/ /\ Raise(p, "cursor")
          /\ cur' = cur
    /\ UNCHANGED <<event, locals, conn, pending, table, now, response, exc>>

\* mutant: item_name and material_code bound to each other's column
RowSwapped(rid, item, mc, qty, created) ==
    [ requisition_id |-> rid, item_name |-> mc, material_code |-> item,
      quantity |-> qty, created_at |-> created ]

\* the row of the INSERT statement
Row(rid, item, mc, qty, created) ==
    [ requisition_id |-> rid, item_name |-> item, material_code |-> mc,
      quantity |-> qty, created_at |-> created ]

\* mutant: the connection is in autocommit mode, execute writes the table
ExecuteAutocommit(p) ==
    /\ pc[p] = "execute"
    /\ now' = now + 1
    /\ \/ /\ Log(p, "execute", TRUE)
          /\ table' =
                Append(table, Row(requisition_id[p], item_name[p], material_code[p],
                                  quantity_int[p], now))
          /\ pc' = [pc EXCEPT ![p] = "commit"]
          /\ err' = err
       \/ /\ Raise(p, "execute")
          /\ table' = table
    /\ UNCHANGED <<event, locals, conn, cur, pending, response, exc>>

\* cur.execute(insert_sql, (...)): the row is written in the connection's
\* transaction and is not visible in the table before the commit
Execute(p) ==
    /\ pc[p] = "execute"
    /\ now' = now + 1
    /\ \/ /\ Log(p, "execute", TRUE)
          /\ pending' =
                [pending EXCEPT ![p] =
                    Append(@, Row(requisition_id[p], item_name[p], material_code[p],
                                  quantity_int[p], now))]
          /\ pc' = [pc EXCEPT ![p] = "commit"]
          /\ err' = err
       \/ /\ Raise(p, "execute")
          /\ pending' = pending
    /\ UNCHANGED <<event, locals, conn, cur, table, response, exc>>

\* conn.commit()
Commit(p) ==
    /\ pc[p] = "commit"
    /\ \/ /\ Log(p, "commit", TRUE)
          /\ table' = table \o pending[p]
          /\ pending' = [pending EXCEPT ![p] = <<>>]
          /\ pc' = [pc EXCEPT ![p] = "finally"]
          /\ err' = err
       \/ /\ Raise(p, "commit")
          /\ UNCHANGED <<table, pending>>
    /\ UNCHANGED <<event, locals, conn, cur, now, response, exc>>

\* mutant: the error text is not passed on
DatabaseErrorMessageGeneric(e) == <<"Database error">>

\* f"Database error: {err}"
DatabaseErrorMessage(e) == <<"Database error: ">> \o e

\* except Exception as err: the return value is built, then finally runs
Except(p) ==
    /\ pc[p] = "except"
    /\ response' =
          [response EXCEPT ![p] = AgentError(event[p], DatabaseErrorMessage(err[p]), 500)]
    /\ pc' = [pc EXCEPT ![p] = "finally"]
    /\ UNCHANGED <<event, locals, dbvars, exc>>

\* mutant: the cursor is closed at the end of the try block only, so it is
\* not closed after an exception
FinallyCurOnSuccessOnly(p) ==
    /\ pc[p] = "finally"
    /\ IF cur[p] # "None" /\ "response" \notin DOMAIN response[p]
       THEN /\ Log(p, "cur.close", TRUE)
            /\ cur' = [cur EXCEPT ![p] = "closed"]
       ELSE UNCHANGED <<calls, cur>>
    /\ pc' = [pc EXCEPT ![p] = "finally_conn"]
    /\ UNCHANGED <<event, locals, conn, pending, table, now, err, response, exc>>

\* finally: if cur: cur.close()
FinallyCur(p) ==
    /\ pc[p] = "finally"
    /\ IF cur[p] # "None"
       THEN /\ Log(p, "cur.close", TRUE)
            /\ cur' = [cur EXCEPT ![p] = "closed"]
       ELSE UNCHANGED <<calls, cur>>
    /\ pc' = [pc EXCEPT ![p] = "finally_conn"]
    /\ UNCHANGED <<event, locals, conn, pending, table, now, err, response, exc>>

\* finally: if conn: conn.close(); closing discards an uncommitted transaction.
\* A return pending from the except clause is then completed.
FinallyConn(p) ==
    /\ pc[p] = "finally_conn"
    /\ IF conn[p] # "None"
       THEN /\ Log(p, "conn.close", TRUE)
            /\ conn' = [conn EXCEPT ![p] = "closed"]
            /\ pending' = [pending EXCEPT ![p] = <<>>]
       ELSE UNCHANGED <<calls, conn, pending>>
    /\ pc' = [pc EXCEPT ![p] = IF "response" \in DOMAIN response[p] THEN "done" ELSE "respond"]
    /\ UNCHANGED <<event, locals, cur, table, now, err, response, exc>>

\* 5) the success response
Respond(p) ==
    /\ pc[p] = "respond"
    /\ response' =
          [response EXCEPT ![p] =
              SuccessEnvelope(event[p], requisition_id[p], item_name[p], material_code[p],
                              quantity_int[p])]
    /\ pc' = [pc EXCEPT ![p] = "done"]
    /\ UNCHANGED <<event, locals, dbvars, exc>>

\* one step of lambda_handler in invocation p
Handler(p) ==
    \/ Normalise(p) \/ Extract(p) \/ Validate(p) \/ ParseQuantity(p)
    \/ Connect(p) \/ Cursor(p) \/ Execute(p) \/ Commit(p) \/ Except(p)
    \/ FinallyCur(p) \/ FinallyConn(p) \/ Respond(p)

\* one invocation, over the whole request domain
Next == Invoke(1, Events) \/ Handler(1)

Spec == Init /\ [][Next]_vars

\* concurrent invocations, each with its own connection
NextConc == \E p \in Procs : Invoke(p, ConcEvents) \/ Handler(p)

SpecConc == Init /\ [][NextConc]_vars

\* =========================================================== properties
\* vocabulary of the properties (stated independently of the handler's code)

Returned(p) == pc[p] = "done"

IsError(r, code) == "statusCode" \in DOMAIN r /\ r.statusCode = code

IsSuccess(r) == "response" \in DOMAIN r /\ "statusCode" \notin DOMAIN r

TextBody(r) == r.response.functionResponse.responseBody.TEXT.body

\* the invocation has normalised its parameters into a mapping
HasMapping(p) == pc[p] \notin {"idle", "normalise"} /\ parameters[p].t = "dict"

\* a required field is missing or empty: absent from the mapping, or falsy
FieldMissing(d, k) ==
    \/ k \notin DOMAIN d
    \/ d[k] \in {None, PyStr(<<>>), PyInt(0), PyFloat(0, <<"0">>)}

MissingSet(d) == {RequiredFields[i] : i \in {j \in 1..3 : FieldMissing(d, RequiredFields[j])}}

Rank(name) == CHOOSE i \in 1..3 : RequiredFields[i] = name

\* the invocation is past the required-field check
PastValidate(p) == HasMapping(p) /\ pc[p] \notin {"extract", "validate"}

\* b is "Missing required field(s): " followed by exactly the names of S,
\* in the order of RequiredFields, separated by ", "
ListsExactly(b, S) ==
    /\ Len(b) = 2 * Cardinality(S)
    /\ b[1] = "Missing required field(s): "
    /\ \A i \in 1..Cardinality(S) : b[2 * i] \in S
    /\ \A i \in 1..(Cardinality(S) - 1) :
          b[2 * i + 1] = ", " /\ Rank(b[2 * i]) < Rank(b[2 * i + 2])

\* C1: whenever a required field is missing or empty in the normalised
\* parameters, the handler returns a status-400 error whose message lists
\* exactly the missing fields, joined by ", ", in the order requisition_id,
\* item_name, quantity.
C1_MissingFieldsListed ==
    \A p \in Procs :
        (PastValidate(p) /\ MissingSet(parameters[p].d) # {}) =>
            /\ Returned(p)
            /\ IsError(response[p], 400)
            /\ ListsExactly(TextBody(response[p]), MissingSet(parameters[p].d))

C1_Witness ==
    \E p \in Procs :
        /\ Returned(p) /\ HasMapping(p)
        /\ MissingSet(parameters[p].d) = {"requisition_id", "quantity"}
        /\ "quantity" \in DOMAIN parameters[p].d
        /\ TextBody(response[p]) =
              <<"Missing required field(s): ", "requisition_id", ", ", "quantity">>

\* s is a base-10 integer literal as int() reads one: optional surrounding
\* whitespace, an optional sign, digits with single underscores between them
IsIntLiteral(s) ==
    \E a \in 0..Len(s) : \E b \in a..Len(s) :
        /\ \A i \in 1..a : s[i] \in Whitespace
        /\ \A i \in (b + 1)..Len(s) : s[i] \in Whitespace
        /\ LET core == SubSeq(s, a + 1, b)
               body == IF core # <<>> /\ core[1] \in {"+", "-"} THEN Tail(core) ELSE core
           IN  /\ body # <<>>
               /\ \A i \in 1..Len(body) : body[i] \in DigitSet \cup {"_"}
               /\ body[1] \in DigitSet /\ body[Len(body)] \in DigitSet
               /\ \A i \in 1..(Len(body) - 1) : ~(body[i] = "_" /\ body[i + 1] = "_")

\* the value is an integer: the JSON integer, or a string holding a literal
IsIntegerQuantity(q) == q.t = "int" \/ (q.t = "str" /\ IsIntLiteral(q.s))

\* the invocation is past int(quantity)
PastParse(p) == PastValidate(p) /\ pc[p] # "parse"

\* C2: when all three required fields are present and non-empty and quantity
\* is not an integer literal, the handler returns the status-400 error
\* "Quantity must be an integer".
C2_NonIntegerQuantityRejected ==
    \A p \in Procs :
        ( /\ PastParse(p)
          /\ MissingSet(parameters[p].d) = {}
          /\ ~IsIntegerQuantity(parameters[p].d["quantity"]) ) =>
            /\ Returned(p)
            /\ IsError(response[p], 400)
            /\ TextBody(response[p]) = <<"Quantity must be an integer">>

\* the database API calls of invocation p that match (op, ok)
CallsOf(p, op, ok) == {i \in 1..Len(calls[p]) : calls[p][i] = Call(op, ok)}

Did(p, op) == CallsOf(p, op, TRUE) # {}

Failed(p, op) == CallsOf(p, op, FALSE) # {}

Quiescent == \A p \in Procs : pc[p] \in {"idle", "done", "raised"}

\* C3: the table holds one row per commit that succeeded, a row is not in
\* the table before its commit, an invocation that returned success has
\* committed exactly one row and one that returned an error or raised has
\* committed none; so when no invocation is running the number of rows is
\* the number of success envelopes.
C3_OneRowPerSuccess ==
    /\ Len(table) = Cardinality({p \in Procs : Did(p, "commit")})
    /\ \A p \in Procs :
          /\ Cardinality(CallsOf(p, "commit", TRUE)) <= 1
          /\ Returned(p) => (IsSuccess(response[p]) <=> Did(p, "commit"))
          /\ pc[p] = "raised" => ~Did(p, "commit")
    /\ Quiescent =>
          Len(table) = Cardinality({p \in Procs : Returned(p) /\ IsSuccess(response[p])})

C3_Witness ==
    /\ Quiescent
    /\ Len(table) = 1
    /\ \E p, q \in Procs :
          /\ Returned(p) /\ IsSuccess(response[p])
          /\ Returned(q) /\ IsError(response[q], 500) /\ Failed(q, "commit")

\* the integer an integer literal denotes, by the positional weights of its digits
RECURSIVE Pow10(_)
Pow10(k) == IF k = 0 THEN 1 ELSE 10 * Pow10(k - 1)

LiteralValue(s) ==
    LET ds == SelectSeq(s, LAMBDA c : c \in DigitSet)
        k == Len(ds)
        sum[i \in 0..k] == IF i = 0 THEN 0 ELSE sum[i - 1] + DigitVal(ds[i]) * Pow10(k - i)
    IN  IF \E i \in 1..Len(s) : s[i] = "-" THEN 0 - sum[k] ELSE sum[k]

QuantityValue(q) == IF q.t = "int" THEN q.n ELSE LiteralValue(q.s)

\* the request of invocation p has non-empty requisition_id and item_name
\* and an integer quantity that the required-field check lets through
WellFormed(p) ==
    /\ HasMapping(p)
    /\ MissingSet(parameters[p].d) = {}
    /\ IsIntegerQuantity(parameters[p].d["quantity"])

MaterialCodeOf(d) == IF "material_code" \in DOMAIN d THEN d["material_code"] ELSE PyStr(<<>>)

\* C4: a well-formed request whose insert the database accepts leaves exactly
\* the row (requisition_id, item_name, material_code or "", parsed quantity)
\* and returns the success envelope: no statusCode, the message
\* "<check mark> Added '<item_name>' (Qty <quantity>) to requisition
\* <requisition_id>." and the four fields echoed, quantity as a decimal string.
C4_SuccessRowAndEnvelope ==
    \A p \in Procs :
        (Returned(p) /\ WellFormed(p)) =>
            LET d == parameters[p].d
                n == QuantityValue(d["quantity"])
                r == response[p]
            IN  /\ Did(p, "connect_db") \/ Failed(p, "connect_db")
                /\ IsSuccess(r) <=> Did(p, "commit")
                /\ Did(p, "commit") =>
                     /\ Len(table) = 1
                     /\ table[1].requisition_id = d["requisition_id"]
                     /\ table[1].item_name = d["item_name"]
                     /\ table[1].material_code = MaterialCodeOf(d)
                     /\ table[1].quantity = n
                     /\ r.messageVersion = "1.0"
                     /\ TextBody(r) =
                          <<CheckMark, " Added '">> \o Format(d["item_name"]) \o <<"' (Qty ">>
                              \o IntStr(n) \o <<") to requisition ">>
                              \o Format(d["requisition_id"]) \o <<".">>
                     /\ LET rb == r.response.functionResponse.responseBody
                        IN  /\ rb.requisition_id = d["requisition_id"]
                            /\ rb.item_name = d["item_name"]
                            /\ rb.material_code = MaterialCodeOf(d)
                            /\ rb.quantity = PyStr(IntStr(n))

\* REQ1 / Bolt / "10" without material_code, inserted and acknowledged
C4_Witness ==
    \E p \in Procs :
        /\ Returned(p) /\ WellFormed(p) /\ IsSuccess(response[p])
        /\ "material_code" \notin DOMAIN parameters[p].d
        /\ table = <<Row(PyStr(<<"R", "E", "Q", "1">>), PyStr(<<"B", "o", "l", "t">>),
                         PyStr(<<>>), 10, 0)>>
        /\ TextBody(response[p]) =
              <<CheckMark, " Added '", "B", "o", "l", "t", "' (Qty ", "1", "0",
                ") to requisition ", "R", "E", "Q", "1", ".">>
        /\ response[p].response.functionResponse.responseBody.quantity = PyStr(<<"1", "0">>)

DbCalls == {"connect_db", "cursor", "execute", "commit"}

\* C5: when connecting, executing or committing fails (or opening the
\* cursor), the handler returns a status-500 error whose message is
\* "Database error: " followed by the text of that failure, and the table
\* holds no row.
C5_DatabaseFailureReported ==
    \A p \in Procs : \A op \in DbCalls :
        (Returned(p) /\ Failed(p, op)) =>
            /\ IsError(response[p], 500)
            /\ TextBody(response[p]) = <<"Database error: ">> \o DbErrorText[op]
            /\ table = <<>>

C5_Witness ==
    \E p \in Procs :
        /\ Returned(p) /\ Did(p, "execute") /\ Failed(p, "commit")
        /\ TextBody(response[p]) =
              <<"Database error: ", "server closed the connection unexpectedly">>
        /\ table = <<>>

\* C6: when the handler returns, the connection has been closed exactly once
\* if connect_db() returned one and never otherwise, likewise the cursor, the
\* cursor before the connection, and neither is open.
C6_ResourcesReleasedOnce ==
    \A p \in Procs :
        Returned(p) =>
            /\ Cardinality(CallsOf(p, "conn.close", TRUE)) = (IF Did(p, "connect_db") THEN 1 ELSE 0)
            /\ Cardinality(CallsOf(p, "cur.close", TRUE)) = (IF Did(p, "cursor") THEN 1 ELSE 0)
            /\ \A i \in CallsOf(p, "cur.close", TRUE) :
                  \A j \in CallsOf(p, "conn.close", TRUE) : i < j
            /\ conn[p] # "open" /\ cur[p] # "open"
            /\ pending[p] = <<>>

C6_Witness ==
    \E p \in Procs :
        /\ Returned(p) /\ Failed(p, "execute")
        /\ calls[p] = <<Call("connect_db", TRUE), Call("cursor", TRUE), Call("execute", FALSE),
                        Call("cur.close", TRUE), Call("conn.close", TRUE)>>
        /\ conn[p] = "closed" /\ cur[p] = "closed"

\* the "parameters" field of the request has one of the documented shapes
ShapeOk(ev) ==
    \/ "parameters" \notin DOMAIN ev
    \/ ev.parameters.t = "dict"
    \/ /\ ev.parameters.t = "list"
       /\ \A i \in 1..Len(ev.parameters.items) : ev.parameters.items[i].kind = "pair"

WellFormedEnvelope(r, ev) ==
    /\ "messageVersion" \in DOMAIN r /\ r.messageVersion = "1.0"
    /\ "response" \in DOMAIN r
    /\ r.response.actionGroup = (IF "actionGroup" \in DOMAIN ev THEN ev.actionGroup ELSE None)
    /\ r.response.function = (IF "function" \in DOMAIN ev THEN ev.function ELSE None)

\* C7: the handler never raises: every invocation ends with a well-formed
\* envelope echoing actionGroup and function, an error envelope carries
\* statusCode 400 or 500, and a request whose parameters have an unexpected
\* shape is answered with the status-400 validation error.
C7_NeverRaises ==
    \A p \in Procs :
        /\ pc[p] # "raised"
        /\ Returned(p) =>
              /\ WellFormedEnvelope(response[p], event[p])
              /\ "statusCode" \in DOMAIN response[p] => response[p].statusCode \in {400, 500}
              /\ ~ShapeOk(event[p]) => IsError(response[p], 400)

ZeroQuantity(p, q) ==
    /\ Returned(p) /\ HasMapping(p)
    /\ ~FieldMissing(parameters[p].d, "requisition_id")
    /\ ~FieldMissing(parameters[p].d, "item_name")
    /\ "quantity" \in DOMAIN parameters[p].d
    /\ parameters[p].d["quantity"] = q

MissingQuantity(r) ==
    IsError(r, 400) /\ TextBody(r) = <<"Missing required field(s): ", "quantity">>

\* C8 as stated: quantity 0 and quantity "0" are both rejected as a missing
\* quantity.
C8_ZeroTreatedAsMissing ==
    \A p \in Procs :
        (ZeroQuantity(p, PyInt(0)) \/ ZeroQuantity(p, PyStr(<<"0">>))) =>
            MissingQuantity(response[p])

\* C8 amended: the number 0 is rejected as a missing quantity; the string
\* "0" passes both validations, is parsed to 0, and the insert of a row with
\* quantity 0 is attempted (success envelope with quantity "0" if the
\* database accepts it, status 500 otherwise): it is never a status-400 error.
C8_NumberZeroMissingStringZeroAccepted ==
    \A p \in Procs :
        /\ ZeroQuantity(p, PyInt(0)) => MissingQuantity(response[p])
        /\ ZeroQuantity(p, PyStr(<<"0">>)) =>
              /\ ~IsError(response[p], 400)
              /\ quantity_int[p] = 0
              /\ Did(p, "connect_db") \/ Failed(p, "connect_db")
              /\ Did(p, "commit") =>
                    /\ IsSuccess(response[p])
                    /\ Len(table) = 1 /\ table[1].quantity = 0
                    /\ response[p].response.functionResponse.responseBody.quantity
                          = PyStr(<<"0">>)

C8_Witness ==
    \E p \in Procs :
        /\ ZeroQuantity(p, PyStr(<<"0">>))
        /\ IsSuccess(response[p])
        /\ Len(table) = 1 /\ table[1].quantity = 0

\* the mapping that gives each name of a {name, value} sequence the value
\* of its last occurrence
LastWins(items) ==
    [ k \in {items[i].name : i \in 1..Len(items)} |->
        items[CHOOSE i \in 1..Len(items) :
                 items[i].name = k /\ \A j \in (i + 1)..Len(items) : items[j].name # k].value ]

\* the mapping a request of a documented shape stands for
MappingOf(ev) ==
    IF "parameters" \notin DOMAIN ev THEN <<>>
    ELSE IF ev.parameters.t = "list" THEN LastWins(ev.parameters.items)
    ELSE ev.parameters.d

\* C9: a sequence of {name, value} pairs is handled as the mapping of each
\* name to the value of its last occurrence, a mapping is used verbatim and
\* absent parameters are the empty mapping: the normalised parameters, the
\* extracted fields and the outcome of the required-field check are those of
\* that mapping, and a request without parameters is rejected as missing
\* all three fields.
C9_ShapesNormaliseAlike ==
    \A p \in Procs :
        (pc[p] \notin {"idle", "normalise"} /\ ShapeOk(event[p])) =>
            LET m == MappingOf(event[p])
            IN  /\ parameters[p] = ParamDict(m)
                /\ pc[p] # "extract" =>
                      /\ requisition_id[p] = Get(m, "requisition_id", PyStr(<<>>))
                      /\ item_name[p] = Get(m, "item_name", PyStr(<<>>))
                      /\ quantity[p] = Get(m, "quantity", PyStr(<<>>))
                      /\ material_code[p] = Get(m, "material_code", PyStr(<<>>))
                /\ pc[p] \notin {"extract", "validate"} =>
                      (MissingSet(m) # {} <=>
                          (Returned(p) /\ IsError(response[p], 400)
                             /\ TextBody(response[p])[1] = "Missing required field(s): "))
                /\ (Returned(p) /\ "parameters" \notin DOMAIN event[p]) =>
                      /\ IsError(response[p], 400)
                      /\ TextBody(response[p]) =
                            <<"Missing required field(s): ", "requisition_id", ", ",
                              "item_name", ", ", "quantity">>

\* quantity given twice in a sequence: the later "10" is the one inserted
C9_Witness ==
    \E p \in Procs :
        /\ Returned(p) /\ IsSuccess(response[p])
        /\ "parameters" \in DOMAIN event[p]
        /\ event[p].parameters.t = "list"
        /\ Len(event[p].parameters.items) = 4
        /\ event[p].parameters.items[1] = Pair("quantity", PyStr(<<"a", "b", "c">>))
        /\ event[p].parameters.items[4] = Pair("quantity", PyStr(<<"1", "0">>))
        /\ Len(table) = 1 /\ table[1].quantity = 10

\* C10: an invocation that returns a status-400 error has made no database
\* call (no connection, cursor, insert or commit), and a request that lacks
\* a required field is reported as missing fields whatever its quantity is,
\* never as "Quantity must be an integer".
C10_ValidationBeforePersistence ==
    \A p \in Procs :
        /\ (Returned(p) /\ IsError(response[p], 400)) =>
              /\ calls[p] = <<>>
              /\ conn[p] = "None" /\ cur[p] = "None"
              /\ pending[p] = <<>> /\ table = <<>>
        /\ (Returned(p) /\ HasMapping(p) /\ MissingSet(parameters[p].d) # {}) =>
              /\ IsError(response[p], 400)
              /\ TextBody(response[p])[1] = "Missing required field(s): "
              /\ TextBody(response[p]) # <<"Quantity must be an integer">>

C10_Witness ==
    \E p \in Procs :
        /\ Returned(p) /\ HasMapping(p)
        /\ MissingSet(parameters[p].d) = {"item_name"}
        /\ Get(parameters[p].d, "quantity", None) = PyStr(<<"a", "b", "c">>)
        /\ TextBody(response[p]) = <<"Missing required field(s): ", "item_name">>
        /\ calls[p] = <<>>

====
